---- MODULE Spec2Model ----
(***************************************************************************)
(* Model of pyannote/database/util.py: the file loaders, the identifier    *)
(* and label helpers, LabelMapper and merge_dict_inplace.                  *)
(*                                                                         *)
(* Every function of the module is called on inputs drawn from bounded     *)
(* sets.  `fn` is the function under call, `args` its arguments, `ret` what*)
(* it returned or raised.  merge_dict_inplace mutates its first argument:  *)
(* `d` is that dictionary and `i` the position of the `for` loop of the    *)
(* top-level call, one iteration per step.                                 *)
(***************************************************************************)
EXTENDS Integers, Sequences, FiniteSets

VARIABLES fn, args, pc, d, i, ret

vars == <<fn, args, pc, d, i, ret>>

(***************************************************************************)
(* Bounds.                                                                 *)
(***************************************************************************)
\* entries (counted over all nesting levels) of the dictionary `d`
MaxEntriesD == 3
\* entries (counted over all nesting levels) of the dictionary `target`
MaxEntriesT == 3

\* keys of the nested dictionaries
Keys == {"a", "b"}
\* scalar values held by d before the call
ScalarsD == {1}
\* scalar values held by target
ScalarsT == {2}

(***************************************************************************)
(* Python values.                                                          *)
(*   a scalar:      [kind |-> "scalar", val |-> n]                         *)
(*   a dict of d:   [kind |-> "dict",   val |-> function key -> value]     *)
(*   a dict of target keeps its iteration (insertion) order:               *)
(*                  [kind |-> "dict",   val |-> sequence of [k, v] items]  *)
(***************************************************************************)
NoValue == [kind |-> "none", val |-> 0]

Scalar(n) == [kind |-> "scalar", val |-> n]

Dict(m) == [kind |-> "dict", val |-> m]

EmptyDict == [k \in {} |-> NoValue]

SetItem(m, k, v) == [x \in DOMAIN m \cup {k} |-> IF x = k THEN v ELSE m[x]]

RECURSIVE DictsOfSize(_, _)
\* the dictionaries with keys among ks and exactly n entries over all levels
DictsOfSize(ks, n) ==
    IF ks = {} THEN (IF n = 0 THEN {EmptyDict} ELSE {})
    ELSE LET k == CHOOSE x \in ks : TRUE
             rest == ks \ {k}
         IN  DictsOfSize(rest, n)
             \cup UNION { UNION { { SetItem(r, k, v) : r \in DictsOfSize(rest, n - c) } :
                                  v \in (IF c = 1 THEN {Scalar(s) : s \in ScalarsD} ELSE {})
                                        \cup { Dict(m) : m \in DictsOfSize(Keys, c - 1) } } :
                          c \in 1..n }

RECURSIVE ItemsOfSize(_, _)
\* the ordered dictionaries with keys among ks and exactly n entries
ItemsOfSize(ks, n) ==
    IF n = 0 THEN {<<>>}
    ELSE UNION { UNION { UNION { { <<[k |-> k, v |-> v]>> \o r : r \in ItemsOfSize(ks \ {k}, n - c) } :
                                 v \in (IF c = 1 THEN {Scalar(s) : s \in ScalarsT} ELSE {})
                                       \cup { Dict(m) : m \in ItemsOfSize(Keys, c - 1) } } :
                         c \in 1..n } :
                 k \in ks }

DictsD == UNION { DictsOfSize(Keys, n) : n \in 0..MaxEntriesD }

DictsT == UNION { ItemsOfSize(Keys, n) : n \in 0..MaxEntriesT }

(***************************************************************************)
(* merge_dict_inplace (util.py 406-444)                                    *)
(***************************************************************************)
\* merge_dict_inplace(v2, v) when v2 is not a dict (an int): the loop body
\* fails on the first item of v, at v2.get or at `k in v2`
merge_into_scalar(target) ==
    IF target = <<>> THEN "returned"
    ELSE IF Head(target).v.kind = "dict" THEN "AttributeError"
    ELSE "TypeError"

RECURSIVE merge_dict_inplace(_, _, _, _)

\* lines 436-438 with the caller's policy handed down to the recursive call
merge_nested_caller_policy(dd, k, v, allow_overwrite, overwrite_exception) ==
    IF k \in DOMAIN dd
    THEN IF dd[k].kind = "dict"
         THEN LET r == merge_dict_inplace(dd[k].val, v.val, allow_overwrite, overwrite_exception)
              IN  [d |-> [dd EXCEPT ![k] = Dict(r.d)], status |-> r.status]
         ELSE [d |-> dd, status |-> merge_into_scalar(v.val)]
    ELSE [d |-> dd,
          status |-> merge_dict_inplace(EmptyDict, v.val, allow_overwrite, overwrite_exception).status]

\* lines 436-438: v is a dict; v2 = d.get(k, {}); merge_dict_inplace(v2, v)
\* the recursive call is made without the two flags, so with their defaults
merge_nested(dd, k, v, allow_overwrite, overwrite_exception) ==
    IF k \in DOMAIN dd
    THEN IF dd[k].kind = "dict"
         THEN \* v2 is the dict d[k] itself: what the call writes, d[k] holds
              LET r == merge_dict_inplace(dd[k].val, v.val, TRUE, FALSE)
              IN  [d |-> [dd EXCEPT ![k] = Dict(r.d)], status |-> r.status]
         ELSE [d |-> dd, status |-> merge_into_scalar(v.val)]
    ELSE \* v2 is a fresh dict that d never refers to
         [d |-> dd, status |-> merge_dict_inplace(EmptyDict, v.val, TRUE, FALSE).status]

\* lines 440-444 with `not allow_overwrite` alone deciding the exception
merge_scalar_always_raise(dd, k, v, allow_overwrite, overwrite_exception) ==
    IF k \in DOMAIN dd /\ ~allow_overwrite
    THEN [d |-> dd, status |-> "RuntimeError"]
    ELSE [d |-> SetItem(dd, k, v), status |-> "returned"]

\* lines 440-444 with the assignment made before the exception is raised
merge_scalar_write_then_raise(dd, k, v, allow_overwrite, overwrite_exception) ==
    IF k \in DOMAIN dd /\ ~allow_overwrite /\ overwrite_exception
    THEN [d |-> SetItem(dd, k, v), status |-> "RuntimeError"]
    ELSE IF k \notin DOMAIN dd \/ allow_overwrite
         THEN [d |-> SetItem(dd, k, v), status |-> "returned"]
         ELSE [d |-> dd, status |-> "returned"]

\* lines 440-444: v is not a dict
merge_scalar(dd, k, v, allow_overwrite, overwrite_exception) ==
    IF k \in DOMAIN dd /\ ~allow_overwrite /\ overwrite_exception
    THEN [d |-> dd, status |-> "RuntimeError"]
    ELSE IF k \notin DOMAIN dd \/ allow_overwrite
         THEN [d |-> SetItem(dd, k, v), status |-> "returned"]
         ELSE [d |-> dd, status |-> "returned"]

\* lines 435-444: the body of the loop for the item (k, v) of target
merge_item(dd, k, v, allow_overwrite, overwrite_exception) ==
    IF v.kind = "dict"
    THEN merge_nested(dd, k, v, allow_overwrite, overwrite_exception)
    ELSE merge_scalar(dd, k, v, allow_overwrite, overwrite_exception)

\* lines 434-444: the loop over target.items(), left at the first exception
merge_dict_inplace(dd, target, allow_overwrite, overwrite_exception) ==
    IF target = <<>> THEN [d |-> dd, status |-> "returned"]
    ELSE LET r == merge_item(dd, Head(target).k, Head(target).v,
                             allow_overwrite, overwrite_exception)
         IN  IF r.status # "returned" THEN r
             ELSE merge_dict_inplace(r.d, Tail(target), allow_overwrite, overwrite_exception)

NoRet == [status |-> "none", value |-> NoValue]

InitMerge ==
    /\ fn = "merge_dict_inplace"
    /\ \E d0 \in DictsD, t \in DictsT, ao \in BOOLEAN, oe \in BOOLEAN :
          /\ args = [d |-> d0, target |-> t, allow_overwrite |-> ao, overwrite_exception |-> oe]
          /\ d = d0
    /\ pc = "loop"
    /\ i = 1
    /\ ret = NoRet

\* the item the loop of the top-level call is at
Item == args.target[i]

Step == merge_item(d, Item.k, Item.v, args.allow_overwrite, args.overwrite_exception)

\* lines 436-438: the value is a dict, merged into d.get(k, {})
MergeNested ==
    /\ fn = "merge_dict_inplace" /\ pc = "loop" /\ i <= Len(args.target)
    /\ Item.v.kind = "dict"
    /\ d' = Step.d
    /\ IF Step.status = "returned"
       THEN i' = i + 1 /\ UNCHANGED <<pc, ret>>
       ELSE pc' = "done" /\ ret' = [status |-> Step.status, value |-> NoValue] /\ UNCHANGED i
    /\ UNCHANGED <<fn, args>>

\* lines 440-441: the key would be overwritten and the caller asked for an exception
MergeRaise ==
    /\ fn = "merge_dict_inplace" /\ pc = "loop" /\ i <= Len(args.target)
    /\ Item.v.kind # "dict"
    /\ Step.status = "RuntimeError"
    /\ d' = Step.d
    /\ pc' = "done"
    /\ ret' = [status |-> "RuntimeError", value |-> NoValue]
    /\ UNCHANGED <<fn, args, i>>

\* lines 442-444 (and the implicit fall-through): d[k] = v, or the key is skipped
MergeScalar ==
    /\ fn = "merge_dict_inplace" /\ pc = "loop" /\ i <= Len(args.target)
    /\ Item.v.kind # "dict"
    /\ Step.status = "returned"
    /\ d' = Step.d
    /\ i' = i + 1
    /\ UNCHANGED <<fn, args, pc, ret>>

\* the loop is exhausted: the function returns None
MergeReturn ==
    /\ fn = "merge_dict_inplace" /\ pc = "loop" /\ i > Len(args.target)
    /\ pc' = "done"
    /\ ret' = [status |-> "returned", value |-> NoValue]
    /\ UNCHANGED <<fn, args, d, i>>

(***************************************************************************)
(* load_lst (util.py 320-338)                                              *)
(***************************************************************************)
\* characters of the text files
Chars == {"a", "b", " ", "\n"}

Whitespace == {" ", "\n"}

\* length of the LST file, in characters
MaxFileLen == 4

\* the texts of exactly n characters
FilesOfLen(n) == [1..n -> Chars]

Files == UNION { FilesOfLen(n) : n \in 0..MaxFileLen }

RECURSIVE readlines(_)
\* fp.readlines(): the lines of the text, each with its newline, the last
\* one without when the text does not end with a newline
readlines(text) ==
    IF text = <<>> THEN <<>>
    ELSE IF \E p \in 1..Len(text) : text[p] = "\n"
         THEN LET p == CHOOSE q \in 1..Len(text) :
                          text[q] = "\n" /\ \A r \in 1..(q - 1) : text[r] # "\n"
              IN  <<SubSeq(text, 1, p)>> \o readlines(SubSeq(text, p + 1, Len(text)))
         ELSE <<text>>

RECURSIVE lstrip(_)
lstrip(line) ==
    IF line # <<>> /\ Head(line) \in Whitespace THEN lstrip(Tail(line)) ELSE line

RECURSIVE rstrip(_)
rstrip(line) ==
    IF line # <<>> /\ line[Len(line)] \in Whitespace
    THEN rstrip(SubSeq(line, 1, Len(line) - 1))
    ELSE line

\* str.strip(): the line without its leading and trailing whitespace
strip(line) == rstrip(lstrip(line))

\* lines 336-338: [line.strip() for line in lines]
load_lst(text) ==
    LET lines == readlines(text)
    IN  [j \in 1..Len(lines) |-> strip(lines[j])]

InitLst ==
    /\ fn = "load_lst"
    /\ \E text \in Files : args = [file_lst |-> text]
    /\ pc = "call"
    /\ d = EmptyDict
    /\ i = 0
    /\ ret = NoRet

LoadLst ==
    /\ fn = "load_lst" /\ pc = "call"
    /\ ret' = [status |-> "returned", value |-> load_lst(args.file_lst)]
    /\ pc' = "done"
    /\ UNCHANGED <<fn, args, d, i>>

(***************************************************************************)
(* load_rttm, load_stm, load_mdtm (util.py 149-266)                        *)
(*                                                                         *)
(* `data` is the table pd.read_csv built from the file: one row per line,  *)
(* in file order, indexed 0, 1, 2, ... (the default RangeIndex).           *)
(* An Annotation is the set of its entries (segment, track, label).        *)
(***************************************************************************)
\* rows of a file
MaxRows == 3

Types == {"SPEAKER", "NON-SPEECH"}

Uris == {"u1", "u2"}

Speakers == {"A", "B"}

Starts == {0, 1}

\* durations (RTTM, MDTM) and end times (STM), all leaving a non-empty segment
Durations == {1}

Ends == {2}

RttmRows == [type : Types, uri : Uris, start : Starts, duration : Durations, speaker : Speakers]

StmRows == [uri : Uris, speaker : Speakers, start : Starts, end : Ends]

MdtmRows == [uri : Uris, start : Starts, duration : Durations, speaker : Speakers]

\* the tables of exactly n rows
Tables(rows, n) == [1..n -> rows]

TablesUpTo(rows) == UNION { Tables(rows, n) : n \in 0..MaxRows }

Segment(start, end) == <<start, end>>

\* Annotation.__setitem__ with every row filed under one and the same track
setitem_single_track(annotation, segment, track, label) ==
    { e \in annotation : e.segment # segment }
        \cup {[segment |-> segment, track |-> 0, label |-> label]}

\* annotation[segment, track] = label: adds the track or updates its label
setitem(annotation, segment, track, label) ==
    { e \in annotation : ~(e.segment = segment /\ e.track = track) }
        \cup {[segment |-> segment, track |-> track, label |-> label]}

\* the rows of the table with the label their index gives them
indexed(data) == [p \in 1..Len(data) |-> [index |-> p - 1, row |-> data[p]]]

\* data.groupby("uri") with each group renumbered from 0
groupby_reset_index(data) ==
    [u \in { data[p].uri : p \in 1..Len(data) } |->
        LET turns == SelectSeq(indexed(data), LAMBDA x : x.row.uri = u)
        IN  [j \in 1..Len(turns) |-> [index |-> j - 1, row |-> turns[j].row]]]

\* data.groupby("uri"): one group per uri, holding the rows of that uri in
\* file order, each under the index it has in the whole table
groupby(data) ==
    [u \in { data[p].uri : p \in 1..Len(data) } |->
        SelectSeq(indexed(data), LAMBDA x : x.row.uri = u)]

RECURSIVE rttm_turns(_, _, _)
\* lines 190-194: for i, turn in turns.iterrows()
rttm_turns(annotation, turns, keep_type) ==
    IF turns = <<>> THEN annotation
    ELSE LET i_ == Head(turns).index
             turn == Head(turns).row
         IN  IF turn.type # keep_type
             THEN rttm_turns(annotation, Tail(turns), keep_type)
             ELSE rttm_turns(setitem(annotation, Segment(turn.start, turn.start + turn.duration),
                                     i_, turn.speaker),
                             Tail(turns), keep_type)

\* lines 187-197
load_rttm(data, keep_type) ==
    LET groups == groupby(data)
    IN  [uri \in DOMAIN groups |-> rttm_turns({}, groups[uri], keep_type)]

RECURSIVE stm_turns(_, _)
\* lines 226-228
stm_turns(annotation, turns) ==
    IF turns = <<>> THEN annotation
    ELSE LET i_ == Head(turns).index
             turn == Head(turns).row
         IN  stm_turns(setitem(annotation, Segment(turn.start, turn.end), i_, turn.speaker),
                       Tail(turns))

\* lines 223-231
load_stm(data) ==
    LET groups == groupby(data)
    IN  [uri \in DOMAIN groups |-> stm_turns({}, groups[uri])]

RECURSIVE mdtm_turns(_, _)
\* lines 261-263
mdtm_turns(annotation, turns) ==
    IF turns = <<>> THEN annotation
    ELSE LET i_ == Head(turns).index
             turn == Head(turns).row
         IN  mdtm_turns(setitem(annotation, Segment(turn.start, turn.start + turn.duration),
                                i_, turn.speaker),
                        Tail(turns))

\* lines 258-266
load_mdtm(data) ==
    LET groups == groupby(data)
    IN  [uri \in DOMAIN groups |-> mdtm_turns({}, groups[uri])]

InitLoaders ==
    /\ \/ /\ fn = "load_rttm"
          /\ \E data \in TablesUpTo(RttmRows), keep_type \in Types :
                args = [data |-> data, keep_type |-> keep_type]
       \/ /\ fn = "load_stm"
          /\ \E data \in TablesUpTo(StmRows) : args = [data |-> data]
       \/ /\ fn = "load_mdtm"
          /\ \E data \in TablesUpTo(MdtmRows) : args = [data |-> data]
    /\ pc = "call"
    /\ d = EmptyDict
    /\ i = 0
    /\ ret = NoRet

LoadRttm ==
    /\ fn = "load_rttm" /\ pc = "call"
    /\ ret' = [status |-> "returned", value |-> load_rttm(args.data, args.keep_type)]
    /\ pc' = "done"
    /\ UNCHANGED <<fn, args, d, i>>

LoadStm ==
    /\ fn = "load_stm" /\ pc = "call"
    /\ ret' = [status |-> "returned", value |-> load_stm(args.data)]
    /\ pc' = "done"
    /\ UNCHANGED <<fn, args, d, i>>

LoadMdtm ==
    /\ fn = "load_mdtm" /\ pc = "call"
    /\ ret' = [status |-> "returned", value |-> load_mdtm(args.data)]
    /\ pc' = "done"
    /\ UNCHANGED <<fn, args, d, i>>

(***************************************************************************)
(* Items (`current_file`): a function from the keys the item has to their  *)
(* values.  A value is None, a str (a sequence of characters) or an int.   *)
(***************************************************************************)
None == [kind |-> "None", val |-> 0]

PyStr(cs) == [kind |-> "str", val |-> cs]

PyInt(n) == [kind |-> "int", val |-> n]

\* every way to give each key of ks either no value or one of vals[k]
RECURSIVE ItemsOver(_, _)
ItemsOver(ks, vals) ==
    IF ks = {} THEN {EmptyDict}
    ELSE LET k == CHOOSE x \in ks : TRUE
             rest == ItemsOver(ks \ {k}, vals)
         IN  rest \cup { SetItem(r, k, v) : r \in rest, v \in vals[k] }

(***************************************************************************)
(* get_unique_identifier (util.py 45-74)                                   *)
(***************************************************************************)
\* largest channel number
MaxChannel == 11

Digit(n) == CASE n = 0 -> "0" [] n = 1 -> "1" [] n = 2 -> "2" [] n = 3 -> "3" [] n = 4 -> "4"
              [] n = 5 -> "5" [] n = 6 -> "6" [] n = 7 -> "7" [] n = 8 -> "8" [] n = 9 -> "9"

RECURSIVE format_d(_)
\* format(n, "d") of a non-negative int: its decimal digits
format_d(n) == IF n < 10 THEN <<Digit(n)>> ELSE format_d(n \div 10) \o <<Digit(n % 10)>>

IdentifierItems ==
    ItemsOver({"database", "uri", "channel"},
              [database |-> {None, PyStr(<<"D">>), PyStr(<<"d", "b">>)},
               uri      |-> {PyStr(<<"X">>), PyStr(<<"f", "_", "1">>)},
               channel  |-> {None, PyStr(<<"1">>)} \cup { PyInt(n) : n \in 0..MaxChannel }])

\* item.get(key, None)
get(item, key) == IF key \in DOMAIN item THEN item[key] ELSE None

\* lines 63-74 with the keys tested for presence, as the docstring puts it
get_unique_identifier_key_presence(item) ==
    LET database == get(item, "database")
        prefix == IF "database" \in DOMAIN item
                  THEN (IF database.kind = "str" THEN database.val ELSE <<"N", "o", "n", "e">>) \o <<"/">>
                  ELSE <<>>
        channel == get(item, "channel")
    IN  IF "uri" \notin DOMAIN item THEN [status |-> "KeyError", value |-> None]
        ELSE IF "channel" \notin DOMAIN item
             THEN [status |-> "returned", value |-> PyStr(prefix \o item["uri"].val)]
             ELSE IF channel.kind # "int" THEN [status |-> "ValueError", value |-> None]
                  ELSE [status |-> "returned",
                        value |-> PyStr(prefix \o item["uri"].val \o <<"_">> \o format_d(channel.val))]

\* lines 63-74
get_unique_identifier(item) ==
    LET database == get(item, "database")
        prefix == IF database # None THEN database.val \o <<"/">> ELSE <<>>
        channel == get(item, "channel")
    IN  IF "uri" \notin DOMAIN item THEN [status |-> "KeyError", value |-> None]
        ELSE IF channel = None
             THEN [status |-> "returned", value |-> PyStr(prefix \o item["uri"].val)]
             ELSE \* f"_{channel:d}" accepts an int only
                  IF channel.kind # "int" THEN [status |-> "ValueError", value |-> None]
                  ELSE [status |-> "returned",
                        value |-> PyStr(prefix \o item["uri"].val \o <<"_">> \o format_d(channel.val))]

InitIdentifier ==
    /\ fn = "get_unique_identifier"
    /\ \E item \in IdentifierItems : args = [item |-> item]
    /\ pc = "call"
    /\ d = EmptyDict
    /\ i = 0
    /\ ret = NoRet

GetUniqueIdentifier ==
    /\ fn = "get_unique_identifier" /\ pc = "call"
    /\ ret' = get_unique_identifier(args.item)
    /\ pc' = "done"
    /\ UNCHANGED <<fn, args, d, i>>

(***************************************************************************)
(* get_annotated (util.py 78-124)                                          *)
(*                                                                         *)
(* A Timeline is the sequence of its segments; item["annotation"] is given *)
(* by the set of the segments of its timeline.                             *)
(***************************************************************************)
\* largest "duration" of an item
MaxDuration == 2

AnnotatedValues == { <<>>, <<Segment(0, 1)>>, <<Segment(0, 1), Segment(2, 3)>> }

AnnotationSegments == { Segment(0, 1), Segment(1, 3), Segment(2, 4) }

AnnotatedItems ==
    ItemsOver({"annotated", "duration", "annotation"},
              [annotated  |-> AnnotatedValues,
               duration   |-> 1..MaxDuration,
               annotation |-> SUBSET AnnotationSegments \ {{}}])

\* Timeline.extent(): from the earliest start to the latest end
extent(segments) ==
    Segment(CHOOSE lo \in { sg[1] : sg \in segments } : \A sg \in segments : lo <= sg[1],
            CHOOSE hi \in { sg[2] : sg \in segments } : \A sg \in segments : hi >= sg[2])

ApproximatedByDuration == "\"annotated\" was approximated by [0, audio duration]."

ApproximatedByExtent ==
    "\"annotated\" was approximated by \"annotation\" extent. Please provide \"annotated\" directly, or at the very least, use a \"duration\" preprocessor."

\* lines 95-124 with the duration looked at before the 'annotated' key
get_annotated_duration_first(current_file) ==
    IF "duration" \in DOMAIN current_file
    THEN [status |-> "returned",
          value |-> <<Segment(0, current_file["duration"])>>,
          warnings |-> <<ApproximatedByDuration>>]
    ELSE IF "annotated" \in DOMAIN current_file
         THEN [status |-> "returned", value |-> current_file["annotated"], warnings |-> <<>>]
         ELSE IF "annotation" \notin DOMAIN current_file
              THEN [status |-> "KeyError", value |-> <<>>, warnings |-> <<>>]
              ELSE [status |-> "returned",
                    value |-> <<extent(current_file["annotation"])>>,
                    warnings |-> <<ApproximatedByExtent>>]

\* lines 95-124; `warnings` is what warnings.warn was called with
get_annotated(current_file) ==
    IF "annotated" \in DOMAIN current_file
    THEN [status |-> "returned", value |-> current_file["annotated"], warnings |-> <<>>]
    ELSE IF "duration" \in DOMAIN current_file
         THEN [status |-> "returned",
               value |-> <<Segment(0, current_file["duration"])>>,
               warnings |-> <<ApproximatedByDuration>>]
         ELSE IF "annotation" \notin DOMAIN current_file
              THEN [status |-> "KeyError", value |-> <<>>, warnings |-> <<>>]
              ELSE [status |-> "returned",
                    value |-> <<extent(current_file["annotation"])>>,
                    warnings |-> <<ApproximatedByExtent>>]

InitAnnotated ==
    /\ fn = "get_annotated"
    /\ \E item \in AnnotatedItems : args = [current_file |-> item]
    /\ pc = "call"
    /\ d = EmptyDict
    /\ i = 0
    /\ ret = NoRet

GetAnnotated ==
    /\ fn = "get_annotated" /\ pc = "call"
    /\ ret' = get_annotated(args.current_file)
    /\ pc' = "done"
    /\ UNCHANGED <<fn, args, d, i>>

(***************************************************************************)
(* LabelMapper (util.py 366-403)                                           *)
(***************************************************************************)
\* turns of the annotation handed to a LabelMapper
MaxTurns == 3

Labels == {"A", "B", "C"}

\* the mappings: some of the labels A and B renamed to M or to B
Mappings == ItemsOver({"A", "B"}, [A |-> {"M", "B"}, B |-> {"M", "B"}])

LabelSeqs(n) == [1..n -> Labels]

\* the annotation whose j-th turn is [j-1, j) under track j-1, labelled ls[j]
AnnotationOf(ls) ==
    { [segment |-> Segment(j - 1, j), track |-> j - 1, label |-> ls[j]] : j \in 1..Len(ls) }

Annotations == { AnnotationOf(ls) : ls \in UNION { LabelSeqs(n) : n \in 0..MaxTurns } }

\* Annotation.labels()
labels(annotation) == { e.label : e \in annotation }

\* Annotation.rename_labels(mapping=mapping): a copy with the labels that
\* are keys of the mapping replaced, the others kept
rename_labels(annotation, mapping) ==
    { [e EXCEPT !.label = IF @ \in DOMAIN mapping THEN mapping[@] ELSE @] : e \in annotation }

\* lines 391-403 without the test for missing labels
LabelMapper_call_unchecked(mapping, keep_missing, current_file) ==
    [status |-> "returned", value |-> rename_labels(current_file["annotation"], mapping)]

\* lines 391-403: LabelMapper(mapping, keep_missing)(current_file)
LabelMapper_call(mapping, keep_missing, current_file) ==
    LET missing == labels(current_file["annotation"]) \ DOMAIN mapping
    IN  IF ~keep_missing /\ missing # {} /\ ~keep_missing
        THEN [status |-> "ValueError", value |-> {}]
        ELSE [status |-> "returned", value |-> rename_labels(current_file["annotation"], mapping)]

InitLabelMapper ==
    /\ fn = "LabelMapper"
    /\ \E mapping \in Mappings, keep_missing \in BOOLEAN, annotation \in Annotations :
          args = [mapping |-> mapping, keep_missing |-> keep_missing,
                  current_file |-> [annotation |-> annotation]]
    /\ pc = "call"
    /\ d = EmptyDict
    /\ i = 0
    /\ ret = NoRet

LabelMapperCall ==
    /\ fn = "LabelMapper" /\ pc = "call"
    /\ ret' = LabelMapper_call(args.mapping, args.keep_missing, args.current_file)
    /\ pc' = "done"
    /\ UNCHANGED <<fn, args, d, i>>

Init ==
    \/ InitMerge
    \/ InitLst
    \/ InitLoaders
    \/ InitIdentifier
    \/ InitAnnotated
    \/ InitLabelMapper

Next ==
    \/ MergeNested \/ MergeRaise \/ MergeScalar \/ MergeReturn
    \/ LoadLst
    \/ LoadRttm \/ LoadStm \/ LoadMdtm
    \/ GetUniqueIdentifier
    \/ GetAnnotated
    \/ LabelMapperCall

Spec == Init /\ [][Next]_vars

(***************************************************************************)
(* Properties of merge_dict_inplace                                        *)
(***************************************************************************)
Merging == fn = "merge_dict_inplace"

Returned == Merging /\ pc = "done" /\ ret.status = "returned"

AtItem == Merging /\ pc = "loop" /\ i <= Len(args.target)

\* the indexes of target's items whose value is a dict, and the others
DictItems == { j \in 1..Len(args.target) : args.target[j].v.kind = "dict" }

ScalarItems == { j \in 1..Len(args.target) : args.target[j].v.kind = "scalar" }

RECURSIVE Contains(_, _)
\* the dict m holds every entry of the ordered dict t, nested ones recursively
Contains(m, t) ==
    \A j \in 1..Len(t) :
        /\ t[j].k \in DOMAIN m
        /\ IF t[j].v.kind = "dict"
           THEN m[t[j].k].kind = "dict" /\ Contains(m[t[j].k].val, t[j].v.val)
           ELSE m[t[j].k] = t[j].v

TKeys(t) == { t[j].k : j \in 1..Len(t) }

TValue(t, k) == t[CHOOSE j \in 1..Len(t) : t[j].k = k].v

RECURSIVE Keeps(_, _, _)
\* the dict m still holds the entries that old had and t does not name
Keeps(m, old, t) ==
    \A k \in DOMAIN old :
        /\ k \in DOMAIN m
        /\ IF k \notin TKeys(t) THEN m[k] = old[k]
           ELSE (old[k].kind = "dict" /\ TValue(t, k).kind = "dict")
                    => (m[k].kind = "dict" /\ Keeps(m[k].val, old[k].val, TValue(t, k).val))

RECURSIVE Overwritten(_, _, _)
\* every scalar entry of t whose key old has too is in m with t's value
Overwritten(m, old, t) ==
    \A j \in 1..Len(t) :
        LET k == t[j].k
            v == t[j].v
        IN  k \in DOMAIN old =>
               IF v.kind = "scalar" THEN k \in DOMAIN m /\ m[k] = v
               ELSE old[k].kind = "dict" =>
                       (k \in DOMAIN m /\ m[k].kind = "dict"
                          /\ Overwritten(m[k].val, old[k].val, v.val))

RECURSIVE HasConflict(_, _)
\* some scalar entry of t has a key that old has too
HasConflict(old, t) ==
    \E j \in 1..Len(t) :
        /\ t[j].k \in DOMAIN old
        /\ IF t[j].v.kind = "scalar" THEN TRUE
           ELSE old[t[j].k].kind = "dict" /\ HasConflict(old[t[j].k].val, t[j].v.val)

\* C1: after a call that returns, for every key k of target whose value is a
\* nested mapping, d[k] is a mapping that contains every recursively merged
\* entry of target[k] and keeps the entries d[k] had that target[k] does not
\* name, both when d had a mapping at k and when k was absent from d
C1_NestedMerged ==
    Returned =>
        \A j \in DictItems :
            LET k == args.target[j].k
                old == IF k \in DOMAIN args.d THEN args.d[k] ELSE Dict(EmptyDict)
            IN  old.kind = "dict" =>
                   /\ k \in DOMAIN d
                   /\ d[k].kind = "dict"
                   /\ Contains(d[k].val, args.target[j].v.val)
                   /\ Keeps(d[k].val, old.val, args.target[j].v.val)

\* what C2 says of the iteration that handles the scalar item (k, v)
C2_ScalarStep ==
    (AtItem /\ Item.v.kind = "scalar") =>
        IF Item.k \in DOMAIN d /\ ~args.allow_overwrite
        THEN IF args.overwrite_exception
             THEN pc' = "done" /\ ret'.status = "RuntimeError" /\ d' = d
             ELSE pc' = "loop" /\ ret' = ret /\ d' = d
        ELSE /\ pc' = "loop" /\ ret' = ret
             /\ d' = SetItem(d, Item.k, Item.v)

\* what C2 says of d once the call has returned
C2_ScalarFinal ==
    /\ Returned =>
          \A j \in ScalarItems :
              LET k == args.target[j].k
              IN  IF k \in DOMAIN args.d /\ ~args.allow_overwrite
                  THEN ~args.overwrite_exception /\ k \in DOMAIN d /\ d[k] = args.d[k]
                  ELSE k \in DOMAIN d /\ d[k] = args.target[j].v
    /\ (Merging /\ pc = "done" /\ ret.status = "RuntimeError") =>
          /\ ~args.allow_overwrite /\ args.overwrite_exception
          /\ i \in ScalarItems /\ args.target[i].k \in DOMAIN args.d

\* C2: at the top level, a key k of target with a non-mapping value v that is
\* already in d while allow_overwrite is false makes the call raise
\* RuntimeError when overwrite_exception is true and is otherwise left at its
\* old value without raising; in every other case d[k] equals v
C2_TopLevelPolicy == [][C2_ScalarStep]_vars /\ []C2_ScalarFinal

\* C2 witness: under allow_overwrite = false, overwrite_exception = false a
\* call returned having skipped one conflicting key and written a new one
C2_Witness ==
    /\ Returned /\ ~args.allow_overwrite /\ ~args.overwrite_exception
    /\ \E j1, j2 \in ScalarItems :
          /\ args.target[j1].k \in DOMAIN args.d
          /\ args.d[args.target[j1].k].kind = "scalar"
          /\ d[args.target[j1].k] = args.d[args.target[j1].k]
          /\ args.target[j2].k \notin DOMAIN args.d
          /\ d[args.target[j2].k] = args.target[j2].v

\* what C3 says of the iteration that handles the dict item (k, v)
C3_NestedStep ==
    (AtItem /\ Item.v.kind = "dict") =>
        /\ ret'.status # "RuntimeError"
        /\ (pc' = "loop" /\ Item.k \in DOMAIN d /\ d[Item.k].kind = "dict") =>
              Overwritten(d'[Item.k].val, d[Item.k].val, Item.v.val)

\* what C3 says of d once the call has returned
C3_NestedFinal ==
    Returned =>
        \A j \in DictItems :
            LET k == args.target[j].k
            IN  (k \in DOMAIN args.d /\ args.d[k].kind = "dict") =>
                    Overwritten(d[k].val, args.d[k].val, args.target[j].v.val)

\* C3: whatever the caller's allow_overwrite and overwrite_exception, a scalar
\* key that exists at depth >= 2 in both d and target is overwritten with
\* target's value and never causes RuntimeError
C3_NestedDefaultPolicy == [][C3_NestedStep]_vars /\ []C3_NestedFinal

\* C3 witness: a call made with allow_overwrite = false and
\* overwrite_exception = true returned after overwriting a scalar key of a
\* nested dictionary
C3_Witness ==
    /\ Returned /\ ~args.allow_overwrite /\ args.overwrite_exception
    /\ \E j \in DictItems :
          LET k == args.target[j].k
          IN  /\ k \in DOMAIN args.d /\ args.d[k].kind = "dict"
              /\ HasConflict(args.d[k].val, args.target[j].v.val)
              /\ d[k] # args.d[k]

\* C10 as stated: a call that raises RuntimeError leaves d exactly as it was
\* before the call
C10_RaiseLeavesDUntouched ==
    (Merging /\ pc = "done" /\ ret.status = "RuntimeError") => d = args.d

\* C10 amended: a call that raises RuntimeError stops at the conflicting key
\* without rolling back: every scalar item of target iterated before that key
\* has been written into d, the conflicting key and the keys iterated after
\* it are as before the call, and so are the keys target does not name
C10_RaiseKeepsEarlierWrites ==
    (Merging /\ pc = "done" /\ ret.status = "RuntimeError") =>
        /\ \A j \in 1..(i - 1) :
              args.target[j].v.kind = "scalar" =>
                  (args.target[j].k \in DOMAIN d /\ d[args.target[j].k] = args.target[j].v)
        /\ \A j \in 1..(i - 1) :
              (args.target[j].v.kind = "dict" /\ args.target[j].k \in DOMAIN args.d
                  /\ args.d[args.target[j].k].kind = "dict") =>
                  Overwritten(d[args.target[j].k].val, args.d[args.target[j].k].val,
                              args.target[j].v.val)
        /\ \A j \in i..Len(args.target) :
              IF args.target[j].k \in DOMAIN args.d
              THEN args.target[j].k \in DOMAIN d /\ d[args.target[j].k] = args.d[args.target[j].k]
              ELSE args.target[j].k \notin DOMAIN d
        /\ \A k \in DOMAIN args.d \ TKeys(args.target) : k \in DOMAIN d /\ d[k] = args.d[k]

\* C10 witness: a call raised RuntimeError after it had changed d
C10_Witness ==
    Merging /\ pc = "done" /\ ret.status = "RuntimeError" /\ d # args.d

(***************************************************************************)
(* Properties of load_lst                                                  *)
(***************************************************************************)
\* C4: load_lst returns no empty string, whatever the file (blank lines in
\* the middle or at the end included)
C4_NoEmptyEntry ==
    (fn = "load_lst" /\ pc = "done") =>
        \A j \in 1..Len(ret.value) : ret.value[j] # <<>>

(***************************************************************************)
(* Properties of load_rttm, load_stm and load_mdtm                         *)
(***************************************************************************)
Loaded == fn \in {"load_rttm", "load_stm", "load_mdtm"} /\ pc = "done"

\* the interval a row stands for
RowSegment(row) ==
    IF fn = "load_stm" THEN <<row.start, row.end>>
    ELSE <<row.start, row.start + row.duration>>

\* the row at position p of the file is stored by the loader
Kept(p) == fn = "load_rttm" => args.data[p].type = args.keep_type

\* the 0-based position of the row at file position p within its uri's group
GroupPosition(p) ==
    Cardinality({ q \in 1..(p - 1) : args.data[q].uri = args.data[p].uri })

\* C5 as stated: the j-th row of a uri's group (j counted from 0) is stored
\* under track j of that uri's Annotation
C5_TrackIsGroupPosition ==
    Loaded =>
        \A p \in 1..Len(args.data) :
            Kept(p) =>
                [segment |-> RowSegment(args.data[p]), track |-> GroupPosition(p),
                 label |-> args.data[p].speaker] \in ret.value[args.data[p].uri]

\* C5 amended: the track of a row is its 0-based line index in the whole
\* file, every row of every uri and type counted; the tracks of one
\* Annotation are the file indexes of the stored rows of its uri, so they are
\* distinct and increase in file order but are neither 0-based nor contiguous
C5_TrackIsFileIndex ==
    Loaded =>
        /\ \A p \in 1..Len(args.data) :
              Kept(p) =>
                  [segment |-> RowSegment(args.data[p]), track |-> p - 1,
                   label |-> args.data[p].speaker] \in ret.value[args.data[p].uri]
        /\ \A u \in DOMAIN ret.value :
              { e.track : e \in ret.value[u] }
                  = { p - 1 : p \in { q \in 1..Len(args.data) : args.data[q].uri = u /\ Kept(q) } }

\* C5 witness: a file that interleaves two uris was loaded and a stored row
\* sits under a track that is not its position in its group
C5_Witness ==
    /\ Loaded
    /\ \E p \in 1..Len(args.data) :
          /\ Kept(p) /\ GroupPosition(p) # p - 1 /\ GroupPosition(p) > 0
          /\ \E e \in ret.value[args.data[p].uri] : e.track = p - 1

\* the rows of uri u that load_rttm must keep as (segment, label)
KeptRows(u, segment, label) ==
    { p \in 1..Len(args.data) :
        /\ args.data[p].uri = u
        /\ args.data[p].type = args.keep_type
        /\ RowSegment(args.data[p]) = segment
        /\ args.data[p].speaker = label }

C8_NoInventedLabel ==
    (fn = "LabelMapper" /\ pc = "done") =>
        LET annotation == args.current_file["annotation"]
            unmapped == { e \in annotation : e.label \notin DOMAIN args.mapping }
        IN  /\ ret.status = "ValueError" <=> (~args.keep_missing /\ unmapped # {})
            /\ ret.status # "ValueError" =>
                  /\ ret.status = "returned"
                  /\ Cardinality(ret.value) = Cardinality(annotation)
                  /\ \A e \in annotation :
                        \E o \in ret.value :
                            /\ o.segment = e.segment /\ o.track = e.track
                            /\ IF e.label \in DOMAIN args.mapping
                               THEN o.label = args.mapping[e.label]
                               ELSE o.label = e.label /\ args.keep_missing

\* C8 witness: a lenient mapper returned an annotation in which one label
\* was renamed and an unmapped one kept
C8_Witness ==
    /\ fn = "LabelMapper" /\ pc = "done" /\ ret.status = "returned"
    /\ args.keep_missing
    /\ \E e1, e2 \in args.current_file["annotation"] :
          /\ e1.label \in DOMAIN args.mapping /\ args.mapping[e1.label] # e1.label
          /\ e2.label \notin DOMAIN args.mapping
          /\ \E o \in ret.value : o.track = e2.track /\ o.label = e2.label

(***************************************************************************)
(* Properties of get_unique_identifier                                     *)
(***************************************************************************)
DigitValue(c) == CHOOSE n \in 0..9 : Digit(n) = c

RECURSIVE ParseInt(_)
\* the number a string of decimal digits reads as
ParseInt(cs) ==
    IF cs = <<>> THEN 0 ELSE 10 * ParseInt(SubSeq(cs, 1, Len(cs) - 1)) + DigitValue(cs[Len(cs)])

IsDigits(cs) == cs # <<>> /\ \A j \in 1..Len(cs) : \E n \in 0..9 : cs[j] = Digit(n)

\* C9: get_unique_identifier returns the uri, prefixed by "{database}/"
\* exactly when the item has a non-null 'database' and suffixed by
\* "_{channel}" exactly when it has a non-null integer 'channel' (a key with
\* a null value counts as absent), and fails for every item without 'uri'
C9_IdentifierFormat ==
    (fn = "get_unique_identifier" /\ pc = "done") =>
        LET item == args.item
            hasDatabase == "database" \in DOMAIN item /\ item["database"].kind # "None"
            hasChannel == "channel" \in DOMAIN item /\ item["channel"].kind # "None"
            prefix == IF hasDatabase THEN item["database"].val \o <<"/">> ELSE <<>>
        IN  IF "uri" \notin DOMAIN item THEN ret.status = "KeyError"
            ELSE IF hasChannel /\ item["channel"].kind # "int" THEN ret.status = "ValueError"
            ELSE /\ ret.status = "returned"
                 /\ LET body == prefix \o item["uri"].val
                        n == Len(body)
                        id == ret.value.val
                    IN  /\ Len(id) >= n /\ SubSeq(id, 1, n) = body
                        /\ IF hasChannel
                           THEN /\ Len(id) >= n + 2 /\ id[n + 1] = "_"
                                /\ IsDigits(SubSeq(id, n + 2, Len(id)))
                                /\ ParseInt(SubSeq(id, n + 2, Len(id))) = item["channel"].val
                                /\ (id[n + 2] = "0" => Len(id) = n + 2)
                           ELSE Len(id) = n

\* C9 witness: an identifier was built with a database prefix and a
\* two-digit channel suffix
C9_Witness ==
    /\ fn = "get_unique_identifier" /\ pc = "done" /\ ret.status = "returned"
    /\ "database" \in DOMAIN args.item /\ args.item["database"] = PyStr(<<"D">>)
    /\ "channel" \in DOMAIN args.item /\ args.item["channel"] = PyInt(10)
    /\ ret.value = PyStr(<<"D", "/", "X", "_", "1", "0">>)

====
